---- MODULE Spec2Model ----
(***************************************************************************)
(* Job supervision and live output of the POIDH control panels.            *)
(*                                                                         *)
(* Two launcher panels exist in the sources: BountyTab (gui/poidh_gui.py)  *)
(* and AgentTab (gui/main.py).  Each launch creates a fresh ProcessManager *)
(* (a QThread), connects its three signals to slots of the panel, and      *)
(* starts it.  The thread spawns the child, reads its output line by line, *)
(* emits one output_signal per line and finally a finished_signal.  Signals*)
(* emitted by the worker thread reach the panel's slots through the GUI    *)
(* thread's event queue, in the order they were posted.                    *)
(***************************************************************************)
EXTENDS Integers, Sequences, FiniteSets, TLC

\* ---------------------------------------------------------------- bounds
\* Number of ProcessManagers one panel creates in a run of the model.
MaxJobs == 2
\* Number of lines the children of one run write, all together.
MaxLines == 2
\* Lines an unread pipe holds before a write to it blocks (the OS pipe buffer).
PipeCap == 1

\* Records the worker writes to audit-trail.json in one run.
MaxRecords == 3
\* Lines the worker writes to bot.log and audit-trail.txt in one run.
MaxLogLines == 3
\* Records of a watched file that are not JSON objects.
MaxBad == 1
\* Times a watched file is truncated, deleted or left unparsable in one run.
MaxDisrupt == 1
\* Entries of the audit document a cli run finds.
MaxDoc == 4
\* Largest --limit given to audit show.
MaxLimit == 5
\* Largest exit code of the child of bounty launch / monitor.
MaxCode == 2

\* ------------------------------------------------------------- constants
\* data.get('entries', [])[-20:] in MonitorTab.refresh_logs
WindowSize == 20
\* f.readlines()[-50:] and [-30:] in DashboardTab.refresh_logs
BotWindow == 50
AuditWindow == 30
\* --limit of cli audit show, default=20
DefaultLimit == 20
\* self.process.wait(timeout=5)
GraceSeconds == 5
\* returncode of a child ended by SIGTERM / SIGKILL (subprocess: -signum)
RcTerm == 0 - 15
RcKill == 0 - 9
\* finished_signal.emit(-1) on the except path
RcExcept == 0 - 1
\* Popen.returncode of a child ended by SIGHUP (signal 1): -1
RcHup == 0 - 1

Jobs == 1..MaxJobs
Panels == {"BountyTab", "AgentTab"}
Whitespace == {" ", "\n"}
\* Text of a line as the child writes it, without its terminator.
Texts == { <<"a">>, <<" ", "b", " ">> }
\* Exit codes a child exits with on its own.
\* A line of bytes that do not decode in the reader's text mode (text=True).
Undecodable == << "\\xff" >>
\* What the child may write as one line.
Writes == Texts \cup {Undecodable}

ExitCodes == {0, 1}
ExcText == <<"e", "x", "c">>

VARIABLES
    panel,      \* which launcher panel this run is about
    njobs,      \* ProcessManagers created so far; panel.process is job njobs
    pc,         \* pc[j]: position of ProcessManager j's run() thread
    line,       \* line[j]: the line run() holds between reading and emitting
    running,    \* running[j]: ProcessManager.running
    proc,       \* proc[j]: "none" (self.process is None), "alive", "exited"
    rc,         \* rc[j]: returncode of the child once it has exited
    out,        \* out[j]: lines the child has written to its stdout pipe
    rd,         \* rd[j]: how many of them run() has read
    err,        \* err[j]: lines the child has written to a separate stderr pipe
    wr,         \* wr[j]: the pipe the child is blocked writing to, or "none"
    sent,       \* sent[j]: signals delivered to the live child
    spc,        \* spc[j]: position of a stop() call on ProcessManager j
    waited,     \* waited[j]: seconds stop() has spent in wait(timeout=5)
    stopAt,     \* stopAt[j]: state of the child when stop() was called
    queue,      \* signal emissions posted to the GUI thread, not yet delivered
    received,   \* received[j]: emissions of job j delivered to the slots, in order
    view,       \* the panel's output widget
    tab,        \* which polling tab this run is about
    files,      \* the watched files under logs/: state and records of each
    nextId,     \* identity of the next record the worker writes
    disrupts,   \* truncations, deletions and garblings so far
    logList,    \* MonitorTab.log_list: the records shown, by identity
    statusLabel,\* MonitorTab.status_label
    logsText,   \* DashboardTab.logs_text
    auditText,  \* DashboardTab.audit_text
    since,      \* what happened to the watched file since the last refresh
    last,       \* what the last refresh saw and did, until a file changes
    cmd,        \* the command line the cli was started with
    cpc,        \* where the cli process is: idle, returned, exited
    printed,    \* the audit entries audit_show has printed
    notice,     \* the message audit_show has printed
    ended,      \* how the child of bounty launch / monitor ended
    ret,        \* the value the command method returned to main
    status      \* the exit status of the cli process

jobVars == << panel, njobs, pc, line, running, proc, rc, out, rd, err, wr, sent,
              spc, waited, stopAt, queue, received, view >>

tailVars == << tab, files, nextId, disrupts, logList, statusLabel, logsText,
              auditText, since, last >>

cliVars == << cmd, cpc, printed, notice, ended, ret, status >>

vars == << jobVars, tailVars, cliVars >>

\* ------------------------------------------------------- text conversion
RECURSIVE RStrip(_)
\* str.rstrip(): drop trailing whitespace
RStrip(s) ==
    IF s = << >> THEN s
    ELSE IF s[Len(s)] \in Whitespace THEN RStrip(SubSeq(s, 1, Len(s) - 1))
    ELSE s

RECURSIVE LStrip(_)
\* leading half of str.strip()
LStrip(s) ==
    IF s = << >> THEN s
    ELSE IF s[1] \in Whitespace THEN LStrip(SubSeq(s, 2, Len(s)))
    ELSE s

\* str.strip()
Strip(s) == LStrip(RStrip(s))

\* What readline() returns for a line of the pipe: its text and terminator.
ReadLine(t) == Append(t, "\n")

\* The text run() passes to output_signal.emit for a line it read.
EmitText(l) == IF panel = "BountyTab" THEN RStrip(l) ELSE Strip(l)

RECURSIVE Written(_)
\* Lines written so far by the children of jobs 1..n, on either stream.
Written(n) == IF n = 0 THEN 0 ELSE Len(out[n]) + Len(err[n]) + Written(n - 1)

RECURSIVE Concat(_)
\* stderr.read(): everything written to the stderr pipe
Concat(ls) == IF ls = << >> THEN << >> ELSE ReadLine(Head(ls)) \o Concat(Tail(ls))

\* ------------------------------------------------------ signal emissions
OutputEvent(j, t) == [job |-> j, sig |-> "output", text |-> t, hascode |-> FALSE, code |-> 0]
ErrorEvent(j, t) == [job |-> j, sig |-> "error", text |-> t, hascode |-> FALSE, code |-> 0]
\* finished_signal = pyqtSignal(int) in poidh_gui.py, pyqtSignal() in main.py
FinishedEvent(j, c) ==
    IF panel = "BountyTab"
    THEN [job |-> j, sig |-> "finished", text |-> << >>, hascode |-> TRUE, code |-> c]
    ELSE [job |-> j, sig |-> "finished", text |-> << >>, hascode |-> FALSE, code |-> 0]

\* ------------------------------------------------------------ slots
\* log_message / append_output
LogMessage(e) == [job |-> e.job, kind |-> "line", text |-> e.text, hascode |-> FALSE, code |-> 0]
\* log_error / append_error
LogError(e) == [job |-> e.job, kind |-> "error", text |-> e.text, hascode |-> FALSE, code |-> 0]
\* on_process_finished
OnProcessFinished(e) ==
    IF panel = "BountyTab"
    THEN IF e.code = 0
         THEN [job |-> e.job, kind |-> "Success", text |-> << >>, hascode |-> FALSE, code |-> 0]
         ELSE [job |-> e.job, kind |-> "Failed", text |-> << >>, hascode |-> TRUE, code |-> e.code]
    ELSE [job |-> e.job, kind |-> "Process completed", text |-> << >>, hascode |-> FALSE, code |-> 0]

Slot(e) ==
    CASE e.sig = "output" -> LogMessage(e)
      [] e.sig = "error" -> LogError(e)
      [] e.sig = "finished" -> OnProcessFinished(e)

\* The text the panel writes into its widget when it launches job j.
LaunchHeader(j) == [job |-> j, kind |-> "header", text |-> << >>, hascode |-> FALSE, code |-> 0]

\* --------------------------------------------------------------- state
InitJobs ==
    /\ njobs = 0
    /\ pc = [j \in Jobs |-> "none"]
    /\ line = [j \in Jobs |-> << >>]
    /\ running = [j \in Jobs |-> TRUE]
    /\ proc = [j \in Jobs |-> "none"]
    /\ rc = [j \in Jobs |-> 0]
    /\ out = [j \in Jobs |-> << >>]
    /\ rd = [j \in Jobs |-> 0]
    /\ err = [j \in Jobs |-> << >>]
    /\ wr = [j \in Jobs |-> "none"]
    /\ sent = [j \in Jobs |-> {}]
    /\ spc = [j \in Jobs |-> "idle"]
    /\ waited = [j \in Jobs |-> 0]
    /\ stopAt = [j \in Jobs |-> "never"]
    /\ queue = << >>
    /\ received = [j \in Jobs |-> << >>]
    /\ view = << >>

\* MonitorTab.init_ui: an empty list, the label Offline; DashboardTab.init_ui:
\* two empty text widgets; no log file has been written yet.
InitTail ==
    /\ files = [f \in {"audit-trail.json", "bot.log", "audit-trail.txt"} |->
                   [state |-> "missing", entries |-> << >>]]
    /\ nextId = 1
    /\ disrupts = 0
    /\ logList = << >>
    /\ statusLabel = "Offline"
    /\ since = {}
    /\ logsText = [kind |-> "plain", lines |-> << >>]
    /\ auditText = [kind |-> "plain", lines |-> << >>]
    /\ last = [seen |-> [f \in {"audit-trail.json", "bot.log", "audit-trail.txt"} |-> "never"],
               changed |-> FALSE, quiet |-> FALSE, cause |-> {}, polled |-> FALSE]

\* The cli has not been started; --limit has its default.
InitCli ==
    /\ cmd = [name |-> "none", limit |-> DefaultLimit]
    /\ cpc = "idle"
    /\ printed = << >>
    /\ notice = "none"
    /\ ended = [how |-> "none", code |-> 0]
    /\ ret = 0
    /\ status = 0

Init ==
    /\ panel \in Panels
    /\ InitJobs
    /\ tab = "MonitorTab"
    /\ InitTail
    /\ InitCli

\* ------------------------------------------------------------- launcher
\* BountyTab.launch_bounty; AgentTab.create_bounty / start_monitor with
\* run_npm_command: clear the widget, write the header, create the
\* ProcessManager, connect its signals, start its thread.
Launch ==
    /\ njobs < MaxJobs
    /\ njobs' = njobs + 1
    /\ view' = IF panel = "BountyTab"
               THEN << LaunchHeader(njobs + 1), LaunchHeader(njobs + 1) >>
               ELSE << LaunchHeader(njobs + 1) >>
    /\ pc' = [pc EXCEPT ![njobs + 1] = "start"]
    /\ UNCHANGED << panel, line, running, proc, rc, out, rd, err, sent, spc,
                    waited, stopAt, queue, received, wr >>
    /\ UNCHANGED << tailVars, cliVars >>

\* ------------------------------------------------- ProcessManager.run
\* Post with the emission queued twice.
PostTwice(q, e) == Append(Append(q, e), e)

Post(q, e) == Append(q, e)

\* subprocess.Popen(...) in run(): the child starts, or Popen raises and the
\* except branch emits the error and the finished signal.
RunSpawn(j) ==
    /\ pc[j] = "start"
    /\ \/ /\ proc' = [proc EXCEPT ![j] = "alive"]
          /\ pc' = [pc EXCEPT ![j] = "read"]
          /\ UNCHANGED queue
       \/ /\ queue' = Post(Post(queue, ErrorEvent(j, ExcText)), FinishedEvent(j, RcExcept))
          /\ pc' = [pc EXCEPT ![j] = "done"]
          /\ UNCHANGED proc
    /\ UNCHANGED << panel, njobs, line, running, rc, out, rd, err, sent, spc,
                    waited, stopAt, received, view, wr >>
    /\ UNCHANGED << tailVars, cliVars >>

\* The next value of the line iterator: a line of the pipe, or end of file
\* once the child has exited and the pipe is drained.
RunRead(j) ==
    /\ pc[j] = "read"
    /\ \/ /\ rd[j] < Len(out[j])
          /\ out[j][rd[j] + 1] # Undecodable
          /\ line' = [line EXCEPT ![j] = ReadLine(out[j][rd[j] + 1])]
          /\ rd' = [rd EXCEPT ![j] = rd[j] + 1]
          /\ pc' = [pc EXCEPT ![j] = IF panel = "BountyTab" THEN "check" ELSE "emit"]
       \/ /\ rd[j] = Len(out[j])
          /\ proc[j] = "exited"
          /\ pc' = [pc EXCEPT ![j] = "wait"]
          /\ UNCHANGED << line, rd >>
    /\ UNCHANGED << panel, njobs, running, proc, rc, out, err, sent, spc,
                    waited, stopAt, queue, received, view, wr >>
    /\ UNCHANGED << tailVars, cliVars >>

\* readline raises on the next line while run() is in the loop (its bytes do
\* not decode): the except branch emits the error and the finished signal.
RunReadError(j) ==
    /\ pc[j] = "read"
    /\ rd[j] < Len(out[j])
    /\ out[j][rd[j] + 1] = Undecodable
    /\ queue' = Post(Post(queue, ErrorEvent(j, ExcText)), FinishedEvent(j, RcExcept))
    /\ pc' = [pc EXCEPT ![j] = "done"]
    /\ UNCHANGED << panel, njobs, line, running, proc, rc, out, rd, err, sent,
                    spc, waited, stopAt, received, view, wr >>
    /\ UNCHANGED << tailVars, cliVars >>

\* poidh_gui.py: "if not self.running: break" and "if line:".
RunCheck(j) ==
    /\ pc[j] = "check"
    /\ pc' = [pc EXCEPT ![j] = IF ~running[j] THEN "wait"
                               ELSE IF line[j] # << >> THEN "emit" ELSE "read"]
    /\ line' = [line EXCEPT ![j] = IF running[j] THEN line[j] ELSE << >>]
    /\ UNCHANGED << panel, njobs, running, proc, rc, out, rd, err, sent,
                    spc, waited, stopAt, queue, received, view, wr >>
    /\ UNCHANGED << tailVars, cliVars >>

\* RunEmit with the line emitted twice, as a slot connected twice would see it.
RunEmitTwice(j) ==
    /\ pc[j] = "emit"
    /\ queue' = Post(Post(queue, OutputEvent(j, EmitText(line[j]))),
                     OutputEvent(j, EmitText(line[j])))
    /\ pc' = [pc EXCEPT ![j] = "read"]
    /\ line' = [line EXCEPT ![j] = << >>]
    /\ UNCHANGED << panel, njobs, running, proc, rc, out, rd, err, sent,
                    spc, waited, stopAt, received, view, wr >>
    /\ UNCHANGED << tailVars, cliVars >>

\* self.output_signal.emit(line.rstrip()) / emit(line.strip())
RunEmit(j) ==
    /\ pc[j] = "emit"
    /\ queue' = Post(queue, OutputEvent(j, EmitText(line[j])))
    /\ pc' = [pc EXCEPT ![j] = "read"]
    /\ line' = [line EXCEPT ![j] = << >>]
    /\ UNCHANGED << panel, njobs, running, proc, rc, out, rd, err, sent,
                    spc, waited, stopAt, received, view, wr >>
    /\ UNCHANGED << tailVars, cliVars >>

\* self.process.stderr.read() in main.py: the whole of standard error as one
\* string, or the exception's text when its bytes do not decode.
StderrText(j) ==
    IF \E i \in 1..Len(err[j]) : err[j][i] = Undecodable THEN ExcText
    ELSE Concat(err[j])

\* After the loop: wait for the child and emit the finished signal.  main.py
\* first emits the child's stderr as one error when the exit code is not 0.
RunWait(j) ==
    /\ pc[j] = "wait"
    /\ proc[j] = "exited"
    /\ queue' = IF panel = "BountyTab"
                THEN Post(queue, FinishedEvent(j, rc[j]))
                ELSE IF rc[j] # 0 /\ err[j] # << >>
                     THEN Post(Post(queue, ErrorEvent(j, StderrText(j))), FinishedEvent(j, rc[j]))
                     ELSE Post(queue, FinishedEvent(j, rc[j]))
    /\ pc' = [pc EXCEPT ![j] = "done"]
    /\ UNCHANGED << panel, njobs, line, running, proc, rc, out, rd, err, sent,
                    spc, waited, stopAt, received, view, wr >>
    /\ UNCHANGED << tailVars, cliVars >>

\* ------------------------------------------------------------ the child
\* The pipe a write of the child to `stream` goes to.  With
\* stderr=subprocess.STDOUT both streams are the one pipe run() reads.
PipeOf(stream) == IF stream = "stdout" \/ panel = "BountyTab" THEN "stdout" ELSE "stderr"

\* Whether pipe p of job j takes another line: run() drains the stdout pipe
\* as it reads; main.py reads the stderr pipe only after the child has exited.
HasRoom(j, p) ==
    IF p = "stdout" THEN Len(out[j]) - rd[j] < PipeCap ELSE Len(err[j]) < PipeCap

\* The child writes one line to standard output or standard error; the write
\* blocks while the pipe is full.
ChildWrite(j, stream, t) ==
    /\ proc[j] = "alive"
    /\ wr[j] = "none"
    /\ Written(MaxJobs) < MaxLines
    /\ IF HasRoom(j, PipeOf(stream))
       THEN /\ IF PipeOf(stream) = "stdout"
               THEN /\ out' = [out EXCEPT ![j] = Append(out[j], t)]
                    /\ UNCHANGED err
               ELSE /\ err' = [err EXCEPT ![j] = Append(err[j], t)]
                    /\ UNCHANGED out
            /\ UNCHANGED wr
       ELSE /\ wr' = [wr EXCEPT ![j] = PipeOf(stream)]
            /\ UNCHANGED << out, err >>
    /\ UNCHANGED << panel, njobs, pc, line, running, proc, rc, rd, sent, spc,
                    waited, stopAt, queue, received, view >>
    /\ UNCHANGED << tailVars, cliVars >>

\* A blocked write completes once the reader has made room in the pipe.
ChildUnblock(j, t) ==
    /\ proc[j] = "alive"
    /\ wr[j] # "none"
    /\ HasRoom(j, wr[j])
    /\ IF wr[j] = "stdout"
       THEN /\ out' = [out EXCEPT ![j] = Append(out[j], t)]
            /\ UNCHANGED err
       ELSE /\ err' = [err EXCEPT ![j] = Append(err[j], t)]
            /\ UNCHANGED out
    /\ wr' = [wr EXCEPT ![j] = "none"]
    /\ UNCHANGED << panel, njobs, pc, line, running, proc, rc, rd, sent, spc,
                    waited, stopAt, queue, received, view >>
    /\ UNCHANGED << tailVars, cliVars >>

\* The child exits on its own (also: in its handler of SIGTERM); a child
\* blocked in a write does not get there.
ChildExit(j, c) ==
    /\ proc[j] = "alive"
    /\ wr[j] = "none"
    /\ proc' = [proc EXCEPT ![j] = "exited"]
    /\ rc' = [rc EXCEPT ![j] = c]
    /\ UNCHANGED << panel, njobs, pc, line, running, out, rd, err, sent, spc,
                    waited, stopAt, queue, received, view, wr >>
    /\ UNCHANGED << tailVars, cliVars >>

\* The child is ended by a signal from outside the program (SIGHUP when its
\* session goes away): wait() returns the negated signal number.
ChildDieHup(j) ==
    /\ proc[j] = "alive"
    /\ proc' = [proc EXCEPT ![j] = "exited"]
    /\ rc' = [rc EXCEPT ![j] = RcHup]
    /\ wr' = [wr EXCEPT ![j] = "none"]
    /\ UNCHANGED << panel, njobs, pc, line, running, out, rd, err, sent, spc,
                    waited, stopAt, queue, received, view >>
    /\ UNCHANGED << tailVars, cliVars >>

\* The child is ended by the SIGTERM it was sent.
ChildDieTerm(j) ==
    /\ proc[j] = "alive"
    /\ "TERM" \in sent[j]
    /\ proc' = [proc EXCEPT ![j] = "exited"]
    /\ rc' = [rc EXCEPT ![j] = RcTerm]
    /\ wr' = [wr EXCEPT ![j] = "none"]
    /\ UNCHANGED << panel, njobs, pc, line, running, out, rd, err, sent, spc,
                    waited, stopAt, queue, received, view >>
    /\ UNCHANGED << tailVars, cliVars >>

\* ------------------------------------------------ ProcessManager.stop
\* self.running = False; if self.process: self.process.terminate() and
\* enter wait(timeout=5).  terminate() signals only a child that is alive.
StopBegin(j) ==
    /\ panel = "BountyTab"
    /\ j = njobs
    /\ spc[j] = "idle"
    /\ running' = [running EXCEPT ![j] = FALSE]
    /\ stopAt' = [stopAt EXCEPT ![j] = IF pc[j] = "start" THEN "unspawned" ELSE proc[j]]
    /\ IF proc[j] = "none"
       THEN /\ spc' = [spc EXCEPT ![j] = "done"]
            /\ UNCHANGED sent
       ELSE /\ spc' = [spc EXCEPT ![j] = "grace"]
            /\ sent' = [sent EXCEPT ![j] = IF proc[j] = "alive" THEN sent[j] \cup {"TERM"} ELSE sent[j]]
    /\ UNCHANGED << panel, njobs, pc, line, proc, rc, out, rd, err, waited,
                    queue, received, view, wr >>
    /\ UNCHANGED << tailVars, cliVars >>

\* One second passes while stop() is blocked in wait(timeout=5).
Tick(j) ==
    /\ spc[j] = "grace"
    /\ proc[j] = "alive"
    /\ waited[j] < GraceSeconds
    /\ waited' = [waited EXCEPT ![j] = waited[j] + 1]
    /\ UNCHANGED << panel, njobs, pc, line, running, proc, rc, out, rd, err,
                    sent, spc, stopAt, queue, received, view, wr >>
    /\ UNCHANGED << tailVars, cliVars >>

\* wait(timeout=5) returns: the child has exited.
StopWaitReturns(j) ==
    /\ spc[j] = "grace"
    /\ proc[j] = "exited"
    /\ spc' = [spc EXCEPT ![j] = "done"]
    /\ UNCHANGED << panel, njobs, pc, line, running, proc, rc, out, rd, err,
                    sent, waited, stopAt, queue, received, view, wr >>
    /\ UNCHANGED << tailVars, cliVars >>

\* wait(timeout=5) raises TimeoutExpired: control enters the except branch.
StopTimeout(j) ==
    /\ spc[j] = "grace"
    /\ proc[j] = "alive"
    /\ waited[j] = GraceSeconds
    /\ spc' = [spc EXCEPT ![j] = "kill"]
    /\ UNCHANGED << panel, njobs, pc, line, running, proc, rc, out, rd, err,
                    sent, waited, stopAt, queue, received, view, wr >>
    /\ UNCHANGED << tailVars, cliVars >>

\* StopKill with the except branch swallowing the timeout ("except: pass").
StopKillOmitted(j) ==
    /\ spc[j] = "kill"
    /\ spc' = [spc EXCEPT ![j] = "done"]
    /\ UNCHANGED << panel, njobs, pc, line, running, proc, rc, out, rd, err,
                    sent, waited, stopAt, queue, received, view, wr >>
    /\ UNCHANGED << tailVars, cliVars >>

\* self.process.kill(): SIGKILL to a child that is still alive.
StopKill(j) ==
    /\ spc[j] = "kill"
    /\ spc' = [spc EXCEPT ![j] = "done"]
    /\ IF proc[j] = "alive"
       THEN /\ sent' = [sent EXCEPT ![j] = sent[j] \cup {"KILL"}]
            /\ proc' = [proc EXCEPT ![j] = "exited"]
            /\ rc' = [rc EXCEPT ![j] = RcKill]
            /\ wr' = [wr EXCEPT ![j] = "none"]
       ELSE UNCHANGED << sent, proc, rc, wr >>
    /\ UNCHANGED << panel, njobs, pc, line, running, out, rd, err, waited,
                    stopAt, queue, received, view >>
    /\ UNCHANGED << tailVars, cliVars >>

\* -------------------------------------------------------- GUI thread
\* The GUI thread takes the oldest posted emission and calls the slot
\* connected to it, which appends to the panel's widget.
Deliver ==
    /\ queue # << >>
    /\ LET e == Head(queue) IN
         /\ received' = [received EXCEPT ![e.job] = Append(received[e.job], e)]
         /\ view' = Append(view, Slot(e))
    /\ queue' = Tail(queue)
    /\ UNCHANGED << panel, njobs, pc, line, running, proc, rc, out, rd, err,
                    sent, spc, waited, stopAt, wr >>
    /\ UNCHANGED << tailVars, cliVars >>

\* The panels as the program runs them: nothing in the sources calls stop().
Next ==
    \/ Launch
    \/ \E j \in Jobs : RunSpawn(j)
    \/ \E j \in Jobs : RunRead(j)
    \/ \E j \in Jobs : RunReadError(j)
    \/ \E j \in Jobs : RunCheck(j)
    \/ \E j \in Jobs : RunEmit(j)
    \/ \E j \in Jobs : RunWait(j)
    \/ \E j \in Jobs, s \in {"stdout", "stderr"}, t \in Writes : ChildWrite(j, s, t)
    \/ \E j \in Jobs, t \in Writes : ChildUnblock(j, t)
    \/ \E j \in Jobs, c \in ExitCodes : ChildExit(j, c)
    \/ \E j \in Jobs : ChildDieHup(j)
    \/ Deliver

Spec == Init /\ [][Next]_vars

\* One ProcessManager of either panel, and a caller of stop() where the
\* class has it (poidh_gui.py).
InitJob == Init

LaunchFirst == njobs = 0 /\ Launch

NextJob ==
    \/ LaunchFirst
    \/ \E j \in Jobs : RunSpawn(j)
    \/ \E j \in Jobs : RunRead(j)
    \/ \E j \in Jobs : RunReadError(j)
    \/ \E j \in Jobs : RunCheck(j)
    \/ \E j \in Jobs : RunEmit(j)
    \/ \E j \in Jobs : RunWait(j)
    \/ \E j \in Jobs, s \in {"stdout", "stderr"}, t \in Writes : ChildWrite(j, s, t)
    \/ \E j \in Jobs, t \in Writes : ChildUnblock(j, t)
    \/ \E j \in Jobs, c \in ExitCodes : ChildExit(j, c)
    \/ \E j \in Jobs : ChildDieHup(j)
    \/ \E j \in Jobs : ChildDieTerm(j)
    \/ \E j \in Jobs : StopBegin(j)
    \/ \E j \in Jobs : Tick(j)
    \/ \E j \in Jobs : StopWaitReturns(j)
    \/ \E j \in Jobs : StopTimeout(j)
    \/ \E j \in Jobs : StopKill(j)
    \/ Deliver

SpecJob == InitJob /\ [][NextJob]_vars

\* ------------------------------------------------------------ vocabulary
\* The emissions of job j still in the GUI thread's queue, in order.
Pending(j) == SelectSeq(queue, LAMBDA e : e.job = j)
\* Every emission run() of job j has made so far, in order.
Emitted(j) == received[j] \o Pending(j)
OutputsOf(es) == SelectSeq(es, LAMBDA e : e.sig = "output")
FinishedOf(es) == SelectSeq(es, LAMBDA e : e.sig = "finished")
\* The status lines of job j in the panel's widget.
StatusOf(j) == SelectSeq(view, LAMBDA v : v.job = j /\ v.kind \notin {"header", "line", "error"})
\* A job is terminal once its run() has emitted the finished signal.
NonTerminal(j) == pc[j] \notin {"none", "done"}
SpawnFailed(j) == pc[j] = "done" /\ proc[j] = "none"

\* ---------------------------------------------------------------- C1
\* C1: at every instant at most one child process started by the panel is
\* running (at most one non-terminal job per slot).
C1_AtMostOneRunningChild ==
    Cardinality({j \in Jobs : proc[j] = "alive"}) <= 1

\* ---------------------------------------------------------------- C2
\* C2: while a job of the slot is not terminal, a launch is rejected: no
\* step creates another ProcessManager (SlotBusy).
C2_BusyLaunchRejected ==
    [][(\E j \in Jobs : NonTerminal(j)) => njobs' = njobs]_vars

\* ---------------------------------------------------------------- C3
\* C3: for a child that printed out[j] on standard output and exited with
\* code rc[j], the observer has received, once the terminal event is there,
\* exactly the lines of out[j] in order and then one finished event that
\* carries rc[j].
C3_LinesThenCompleted ==
    \A j \in Jobs :
        (proc[j] = "exited" /\ err[j] = << >> /\ FinishedOf(received[j]) # << >>) =>
            LET r == received[j] IN
            /\ Len(r) = Len(out[j]) + 1
            /\ \A i \in 1..Len(out[j]) : r[i].sig = "output" /\ r[i].text = out[j][i]
            /\ r[Len(r)].sig = "finished"
            /\ r[Len(r)].hascode
            /\ r[Len(r)].code = rc[j]

\* ---------------------------------------------------------------- C4
\* C4: the lines emitted for a job are, position by position, the lines
\* read from the child's output: the i-th line the observer gets is the
\* i-th line of the pipe (as run() renders it), so positions 1, 2, ... are
\* gapless sequence numbers, stream order is kept and no line comes twice.
C4_GaplessInOrder ==
    \A j \in Jobs :
        LET ls == OutputsOf(Emitted(j)) IN
        /\ Len(ls) <= rd[j]
        /\ \A i \in 1..Len(ls) : ls[i].text = EmitText(ReadLine(out[j][i]))

\* Two different lines of one job have reached the observer.
C4_Witness ==
    \E j \in Jobs :
        LET ls == OutputsOf(received[j]) IN
        /\ Len(ls) >= 2
        /\ ls[1].text # ls[2].text

\* ---------------------------------------------------------------- C5
\* C5: a child that exited on its own with code c is reported in the one
\* state Completed with c: the finished event carries c, and the status
\* shown is never Failed.
C5_ExitIsCompletedWithCode ==
    \A j \in Jobs :
        (proc[j] = "exited" /\ sent[j] = {}) =>
            /\ \A i \in 1..Len(FinishedOf(received[j])) :
                   LET f == FinishedOf(received[j])[i] IN f.hascode /\ f.code = rc[j]
            /\ \A i \in 1..Len(StatusOf(j)) : StatusOf(j)[i].kind # "Failed"

\* ---------------------------------------------------------------- C6
\* C6: a spawn failure is reported by launch itself and creates no job: no
\* terminal event is ever emitted for it.
C6_SpawnFailureCreatesNoJob ==
    \A j \in Jobs : SpawnFailed(j) => FinishedOf(Emitted(j)) = << >>

\* ---------------------------------------------------------------- C7
\* C7: stop() on a running job sends terminate first and waits at most the
\* grace period; kill is sent only when the full grace period has passed
\* with the child still alive, never to a child that exited within it; and
\* when stop() returns the child has ended.
C7_GraceThenKill ==
    \A j \in Jobs :
        /\ waited[j] <= GraceSeconds
        /\ (spc[j] \in {"grace", "kill"} /\ stopAt[j] = "alive") => "TERM" \in sent[j]
        /\ "KILL" \in sent[j] =>
               /\ "TERM" \in sent[j]
               /\ waited[j] = GraceSeconds
               /\ rc[j] = RcKill
        /\ (proc[j] = "exited" /\ rc[j] # RcKill) => "KILL" \notin sent[j]
        /\ (spc[j] = "done" /\ stopAt[j] = "alive") => proc[j] = "exited"

\* A child ignored terminate through the grace period and was killed.
C7_Witness ==
    \E j \in Jobs : spc[j] = "done" /\ "KILL" \in sent[j] /\ waited[j] = GraceSeconds

\* ---------------------------------------------------------------- C8
\* C8: stop() on a ProcessManager without a running child (not spawned yet,
\* or already exited) changes nothing, so the job then delivers every line
\* of its child as it would have without the call.
C8_StopWithoutChildIsNoOp ==
    \A j \in Jobs :
        (stopAt[j] \in {"unspawned", "exited"} /\ pc[j] = "done" /\ proc[j] = "exited") =>
            Len(OutputsOf(Emitted(j))) = Len(out[j])

\* ---------------------------------------------------------------- C9
\* C9: a job is reported Cancelled exactly when a signal of stop() ended its
\* child: Cancelled, and not Completed or Failed, for the cancelled job.
C9_CancelledIffStopped ==
    \A j \in Jobs :
        \A i \in 1..Len(StatusOf(j)) :
            (StatusOf(j)[i].kind = "Cancelled") <=>
                (proc[j] = "exited" /\ sent[j] # {} /\ rc[j] \in {RcTerm, RcKill})

\* ---------------------------------------------------------------- C11
\* The steps of the program and of the child itself: every step of NextJob
\* but the signal that ends the child from outside the program.
OwnStep ==
    \/ LaunchFirst
    \/ \E j \in Jobs : RunSpawn(j)
    \/ \E j \in Jobs : RunRead(j)
    \/ \E j \in Jobs : RunReadError(j)
    \/ \E j \in Jobs : RunCheck(j)
    \/ \E j \in Jobs : RunEmit(j)
    \/ \E j \in Jobs : RunWait(j)
    \/ \E j \in Jobs, s \in {"stdout", "stderr"}, t \in Writes : ChildWrite(j, s, t)
    \/ \E j \in Jobs, t \in Writes : ChildUnblock(j, t)
    \/ \E j \in Jobs, c \in ExitCodes : ChildExit(j, c)
    \/ \E j \in Jobs : ChildDieTerm(j)
    \/ \E j \in Jobs : StopBegin(j)
    \/ \E j \in Jobs : Tick(j)
    \/ \E j \in Jobs : StopWaitReturns(j)
    \/ \E j \in Jobs : StopTimeout(j)
    \/ \E j \in Jobs : StopKill(j)
    \/ Deliver

\* C11: whatever the child writes to either stream, its job reaches the
\* terminal event: while a job has not emitted finished, the system is never
\* stuck (some step towards the child's exit and the finished signal is
\* possible without a signal from outside the program).
C11_JobNeverStuck ==
    (\E j \in Jobs : NonTerminal(j)) => ENABLED OwnStep

\* ------------------------------------------------------ watched files
Tabs == {"MonitorTab", "DashboardTab"}
AuditJson == "audit-trail.json"
BotLog == "bot.log"
AuditTxt == "audit-trail.txt"
Files == {AuditJson, BotLog, AuditTxt}

\* The files a tab reads on its timer.
Watched(t) == IF t = "MonitorTab" THEN {AuditJson} ELSE {BotLog, AuditTxt}

\* The slice each reader takes of its file.
Window(f) == IF f = AuditJson THEN WindowSize
             ELSE IF f = BotLog THEN BotWindow ELSE AuditWindow

\* Records one run writes into the files of the tab.
Budget(t) == IF t = "MonitorTab" THEN MaxRecords ELSE MaxLogLines

\* A record of a watched file: its identity and whether it renders (in the
\* audit trail: a JSON object, so that entry.get works; a text line always
\* renders).
Entry(n, ok) == [id |-> n, ok |-> ok]

\* LastSlice without the slice: the whole sequence is kept.
LastSliceAll(es, k) == es

\* Python's seq[-k:] for k >= 0: seq[-0:] is seq[0:], the whole sequence.
LastSlice(es, k) ==
    IF k = 0 \/ Len(es) <= k THEN es ELSE SubSeq(es, Len(es) - k + 1, Len(es))

\* Python's seq[c:] for c >= 0.
FromSlice(es, c) == IF c >= Len(es) THEN << >> ELSE SubSeq(es, c + 1, Len(es))

AllOk(es) == \A i \in 1..Len(es) : es[i].ok
BadIn(es) == Cardinality({i \in 1..Len(es) : ~es[i].ok})
Ids(es) == [i \in 1..Len(es) |-> es[i].id]

\* The for loop over entries: items are added one by one until an entry
\* raises.
RECURSIVE Rendered(_)
Rendered(es) ==
    IF es = << >> \/ ~Head(es).ok THEN << >>
    ELSE << Head(es).id >> \o Rendered(Tail(es))

Happened(f, what) == since \cup {<< f, what >>}

\* Once a file has changed, the record of the last refresh is out of date:
\* only the fact that a refresh has run is kept.
Forgotten ==
    [seen |-> [f \in Files |-> "never"], changed |-> FALSE, quiet |-> FALSE,
     cause |-> {}, polled |-> last.polled]

\* The worker writes one more record to file f, creating the file when it
\* is absent.
FileWrite(f, ok) ==
    /\ f \in Watched(tab)
    /\ nextId <= Budget(tab)
    /\ files[f].state \in {"missing", "ok"}
    /\ ok \/ (f = AuditJson /\ BadIn(files[f].entries) < MaxBad)
    /\ files' = [files EXCEPT ![f] =
                    [state |-> "ok", entries |-> Append(@.entries, Entry(nextId, ok))]]
    /\ nextId' = nextId + 1
    /\ since' = Happened(f, IF files[f].state = "missing" THEN "appear" ELSE "append")
    /\ last' = Forgotten
    /\ UNCHANGED << tab, disrupts, logList, statusLabel, logsText, auditText >>
    /\ UNCHANGED << jobVars, cliVars >>

\* File f is rotated: it restarts with no records.
FileTruncate(f) ==
    /\ f \in Watched(tab)
    /\ disrupts < MaxDisrupt
    /\ files[f].state = "ok"
    /\ files[f].entries # << >>
    /\ files' = [files EXCEPT ![f].entries = << >>]
    /\ disrupts' = disrupts + 1
    /\ since' = Happened(f, "shrink")
    /\ last' = Forgotten
    /\ UNCHANGED << tab, nextId, logList, statusLabel, logsText, auditText >>
    /\ UNCHANGED << jobVars, cliVars >>

FileDelete(f) ==
    /\ f \in Watched(tab)
    /\ disrupts < MaxDisrupt
    /\ files[f].state # "missing"
    /\ files' = [files EXCEPT ![f] = [state |-> "missing", entries |-> << >>]]
    /\ disrupts' = disrupts + 1
    /\ since' = Happened(f, "delete")
    /\ last' = Forgotten
    /\ UNCHANGED << tab, nextId, logList, statusLabel, logsText, auditText >>
    /\ UNCHANGED << jobVars, cliVars >>

\* File f cannot be read as what the reader expects (caught half written, so
\* that json.load raises; not readable or not decodable, so that open or
\* readlines raises).
FileGarble(f) ==
    /\ f \in Watched(tab)
    /\ disrupts < MaxDisrupt
    /\ files[f].state = "ok"
    /\ files' = [files EXCEPT ![f].state = "garbled"]
    /\ disrupts' = disrupts + 1
    /\ since' = Happened(f, "garble")
    /\ last' = Forgotten
    /\ UNCHANGED << tab, nextId, logList, statusLabel, logsText, auditText >>
    /\ UNCHANGED << jobVars, cliVars >>

\* The file reads again.
FileRepair(f) ==
    /\ f \in Watched(tab)
    /\ files[f].state = "garbled"
    /\ files' = [files EXCEPT ![f].state = "ok"]
    /\ since' = Happened(f, "repair")
    /\ last' = Forgotten
    /\ UNCHANGED << tab, nextId, disrupts, logList, statusLabel, logsText, auditText >>
    /\ UNCHANGED << jobVars, cliVars >>

\* ---------------------------------------------- MonitorTab.refresh_logs
\* if self.log_list.count() < len(entries): entries[self.log_list.count():]
FreshAll(entries, count) == entries

Fresh(entries, count) ==
    IF count < Len(entries) THEN FromSlice(entries, count) ELSE << >>

\* What a refresh records about itself: the state of each file it met,
\* whether it changed what the tab shows, whether nothing had happened to
\* the files since the refresh before it, and what had happened.
Seen(changed) ==
    [seen |-> [f \in Files |-> files[f].state], changed |-> changed,
     quiet |-> since = {} /\ last.polled, cause |-> since, polled |-> TRUE]

MonitorRefresh ==
    /\ tab = "MonitorTab"
    /\ LET audit == files[AuditJson]
           entries == LastSlice(audit.entries, Window(AuditJson))
           fresh == Fresh(entries, Len(logList))
       IN  /\ logList' = IF audit.state = "ok" THEN logList \o Rendered(fresh)
                         ELSE logList
           /\ statusLabel' =
                  IF audit.state = "missing" THEN statusLabel
                  ELSE IF audit.state = "garbled" \/ ~AllOk(fresh) THEN "Offline"
                  ELSE "Online"
    /\ last' = Seen(logList' # logList \/ statusLabel' # statusLabel)
    /\ since' = {}
    /\ UNCHANGED << tab, files, nextId, disrupts, logsText, auditText >>
    /\ UNCHANGED << jobVars, cliVars >>

\* -------------------------------------------- DashboardTab.refresh_logs
\* setPlainText(''.join(content)): the widget shows exactly these lines.
PlainText(es) == [kind |-> "plain", lines |-> Ids(es)]
\* setText(f'Error reading logs: {e}')
ErrorText == [kind |-> "error", lines |-> << >>]

DashboardRefresh ==
    /\ tab = "DashboardTab"
    /\ LET bot == files[BotLog]
           aud == files[AuditTxt]
           botRaises == bot.state = "garbled"
           audRaises == ~botRaises /\ aud.state = "garbled"
       IN  /\ logsText' = IF botRaises \/ audRaises THEN ErrorText
                          ELSE IF bot.state = "ok"
                               THEN PlainText(LastSlice(bot.entries, Window(BotLog)))
                               ELSE logsText
           /\ auditText' = IF ~botRaises /\ aud.state = "ok"
                           THEN PlainText(LastSlice(aud.entries, Window(AuditTxt)))
                           ELSE auditText
    /\ last' = Seen(logsText' # logsText \/ auditText' # auditText)
    /\ since' = {}
    /\ UNCHANGED << tab, files, nextId, disrupts, logList, statusLabel >>
    /\ UNCHANGED << jobVars, cliVars >>

\* A tab starts with each of its files either absent or already holding one
\* record less than the reader's slice takes (records of earlier runs have
\* the identities ..., -1, 0).
Absent == [state |-> "missing", entries |-> << >>]
Present(f) ==
    [state |-> "ok",
     entries |-> [i \in 1..(Window(f) - 1) |-> Entry(i - Window(f) + 1, TRUE)]]
StartFiles(t) ==
    { [f \in Files |-> IF f \in P THEN Present(f) ELSE Absent] : P \in SUBSET Watched(t) }

InitTab ==
    /\ panel = "BountyTab"
    /\ InitJobs
    /\ tab \in Tabs
    /\ files \in StartFiles(tab)
    /\ nextId = 1
    /\ disrupts = 0
    /\ logList = << >>
    /\ statusLabel = "Offline"
    /\ logsText = [kind |-> "plain", lines |-> << >>]
    /\ auditText = [kind |-> "plain", lines |-> << >>]
    /\ since = {}
    /\ last = [seen |-> [f \in Files |-> "never"],
               changed |-> FALSE, quiet |-> FALSE, cause |-> {}, polled |-> FALSE]
    /\ InitCli

NextTab ==
    \/ \E f \in Files, ok \in BOOLEAN : FileWrite(f, ok)
    \/ \E f \in Files : FileTruncate(f)
    \/ \E f \in Files : FileDelete(f)
    \/ \E f \in Files : FileGarble(f)
    \/ \E f \in Files : FileRepair(f)
    \/ MonitorRefresh
    \/ DashboardRefresh

SpecTab == InitTab /\ [][NextTab]_vars

\* ------------------------------------------------------------ cli.py
\* The audit documents a cli run may find: absent, unparsable, or an
\* 'entries' array of up to MaxDoc records of which at most one is not a
\* JSON object.
DocEntries ==
    { [i \in 1..n |-> Entry(i, i # b)] : n \in 0..MaxDoc, b \in 0..MaxDoc }
Docs ==
    { [state |-> st, entries |-> es] : st \in {"ok", "garbled"}, es \in DocEntries }
        \cup { [state |-> "missing", entries |-> << >>] }

\* --limit, type=int, default=20
Limits == 0..MaxLimit \cup {DefaultLimit}

\* The ways subprocess.run ends: the child exits with a code, the timeout
\* expires, or the child cannot be started.
ChildCodes == 0..MaxCode
Outcomes ==
    { [how |-> "exit", code |-> c] : c \in ChildCodes }
        \cup { [how |-> "timeout", code |-> 0], [how |-> "spawnfail", code |-> 0] }

CommandLines ==
    { [name |-> "audit show", limit |-> l] : l \in Limits }
        \cup { [name |-> nm, limit |-> DefaultLimit] : nm \in {"bounty launch", "bounty monitor"} }

\* POIDHCLI.audit_show(limit)
AuditShow ==
    /\ cpc = "idle"
    /\ cmd.name = "audit show"
    /\ LET doc == files[AuditJson]
           entries == LastSlice(doc.entries, cmd.limit)
       IN  /\ printed' = IF doc.state = "ok" THEN Rendered(entries) ELSE << >>
           /\ notice' = IF doc.state = "missing" THEN "No audit trail found"
                        ELSE IF doc.state = "garbled" THEN "Error"
                        ELSE IF AllOk(entries) THEN "Audit Trail"
                        ELSE "Audit Trail, Error"
           /\ ret' = IF doc.state = "ok" /\ AllOk(entries) THEN 0 ELSE 1
    /\ cpc' = "returned"
    /\ UNCHANGED << cmd, ended, status >>
    /\ UNCHANGED << jobVars, tailVars >>

\* What bounty_launch and bounty_monitor return for each way the child ends.
Returned(o) == IF o.how = "exit" THEN o.code ELSE 1

\* POIDHCLI.bounty_launch: subprocess.run with timeout=600
BountyLaunch(o) ==
    /\ cpc = "idle"
    /\ cmd.name = "bounty launch"
    /\ ended' = o
    /\ ret' = Returned(o)
    /\ cpc' = "returned"
    /\ UNCHANGED << cmd, printed, notice, status >>
    /\ UNCHANGED << jobVars, tailVars >>

\* POIDHCLI.bounty_monitor: subprocess.run without a timeout
BountyMonitor(o) ==
    /\ cpc = "idle"
    /\ cmd.name = "bounty monitor"
    /\ o.how # "timeout"
    /\ ended' = o
    /\ ret' = Returned(o)
    /\ cpc' = "returned"
    /\ UNCHANGED << cmd, printed, notice, status >>
    /\ UNCHANGED << jobVars, tailVars >>

\* sys.exit(main()): the process exit status is the returned value, one byte.
SysExit ==
    /\ cpc = "returned"
    /\ status' = ret % 256
    /\ cpc' = "exited"
    /\ UNCHANGED << cmd, printed, notice, ended, ret >>
    /\ UNCHANGED << jobVars, tailVars >>

InitRun ==
    /\ panel = "BountyTab"
    /\ InitJobs
    /\ tab = "MonitorTab"
    /\ nextId = 1
    /\ disrupts = 0
    /\ logList = << >>
    /\ statusLabel = "Offline"
    /\ logsText = [kind |-> "plain", lines |-> << >>]
    /\ auditText = [kind |-> "plain", lines |-> << >>]
    /\ since = {}
    /\ last = [seen |-> [f \in Files |-> "never"],
               changed |-> FALSE, quiet |-> FALSE, cause |-> {}, polled |-> FALSE]
    /\ \E doc \in Docs :
           files = [f \in Files |-> IF f = AuditJson THEN doc
                                    ELSE [state |-> "missing", entries |-> << >>]]
    /\ cmd \in CommandLines
    /\ cpc = "idle"
    /\ printed = << >>
    /\ notice = "none"
    /\ ended = [how |-> "none", code |-> 0]
    /\ ret = 0
    /\ status = 0

NextRun ==
    \/ AuditShow
    \/ \E o \in Outcomes : BountyLaunch(o)
    \/ \E o \in Outcomes : BountyMonitor(o)
    \/ SysExit

SpecRun == InitRun /\ [][NextRun]_vars

\* ----------------------------------------------------------- vocabulary
\* What the tab shows of file f.
Shown(f) == IF f = AuditJson THEN logList
            ELSE IF f = BotLog THEN logsText.lines ELSE auditText.lines

\* The last refresh read file f to its end without raising.
CaughtUp(f) ==
    /\ f \in Watched(tab)
    /\ last.polled
    /\ since = {}
    /\ files[f].state = "ok"
    /\ IF tab = "MonitorTab" THEN statusLabel = "Online"
       ELSE logsText.kind = "plain"

\* What happened to file f between the last two refreshes.
Cause(f) == {e[2] : e \in {x \in last.cause : x[1] = f}}

\* ---------------------------------------------------------------- C12
\* C12: when the audit trail has only grown by whole appended records and a
\* refresh has run since the last write, the list shows every record of the
\* file exactly once, in file order, whatever the number of records.
C12_EveryRecordOnce ==
    (/\ CaughtUp(AuditJson)
     /\ disrupts = 0
     /\ AllOk(files[AuditJson].entries))
        => Shown(AuditJson) = Ids(files[AuditJson].entries)

\* ---------------------------------------------------------------- C13
\* C13: a refresh that runs when nothing has happened to the watched files
\* since the refresh before it changes nothing in what the tab shows (the
\* list and label of MonitorTab, the two text widgets of DashboardTab).
C13_DrainedPollsAddNothing ==
    last.quiet => ~last.changed

\* A second refresh in a row has run after one that caught up with a file
\* whose records are on display.
C13_Witness ==
    /\ last.quiet
    /\ \E f \in Watched(tab) : CaughtUp(f) /\ Shown(f) # << >>

\* ---------------------------------------------------------------- C14
\* C14: when a watched file shrank between two refreshes, the tab shows after
\* the second refresh the file's new content from its start, and no record
\* of the old file.
C14_ShrinkRedelivers ==
    \A f \in Watched(tab) :
        (CaughtUp(f) /\ "shrink" \in Cause(f))
            => Shown(f) = Ids(LastSlice(files[f].entries, Window(f)))

\* ---------------------------------------------------------------- C15
\* C15: a refresh that finds no watched file changes nothing and shows no
\* error, and the first refresh after a file has appeared shows the file's
\* content.
C15_MissingThenAppears ==
    /\ (\A f \in Watched(tab) : last.seen[f] = "missing")
           => ~last.changed
    /\ \A f \in Watched(tab) :
           (/\ CaughtUp(f)
            /\ "appear" \in Cause(f)
            /\ Cause(f) \subseteq {"appear", "append"})
               => Shown(f) = Ids(LastSlice(files[f].entries, Window(f)))

\* ---------------------------------------------------------------- C16
\* C16: for a readable audit document of n entries and every limit >= 0,
\* audit show prints exactly the last min(limit, n) entries in document
\* order.
C16_RecentIsLastMin ==
    LET es == files[AuditJson].entries
        n == Len(es)
        k == IF cmd.limit < n THEN cmd.limit ELSE n
    IN  (/\ cmd.name = "audit show"
         /\ cpc # "idle"
         /\ files[AuditJson].state = "ok"
         /\ AllOk(es))
            => printed = Ids(SubSeq(es, n - k + 1, n))

\* ---------------------------------------------------------------- C17
\* C17: when audit show fails on its document (it returns a failure), it has
\* printed no entry of that document.
C17_FailureDeliversNothing ==
    (cmd.name = "audit show" /\ cpc # "idle" /\ ret # 0) => printed = << >>

\* ---------------------------------------------------------------- C18
\* C18: audit show on a missing or unparsable audit document prints no entry
\* and the cli exits with status 0.
C18_UnavailableIsEmptyTrail ==
    (/\ cmd.name = "audit show"
     /\ cpc = "exited"
     /\ files[AuditJson].state \in {"missing", "garbled"})
        => (printed = << >> /\ status = 0)

\* ---------------------------------------------------------------- C19
\* C19: the exit status of bounty launch / monitor is the child's exit code
\* when the child exited, and is no exit code the child could return when
\* the launch timed out or the child could not be started.
C19_ResultTellsCause ==
    (cmd.name \in {"bounty launch", "bounty monitor"} /\ cpc = "exited")
        => /\ ended.how = "exit" => status = ended.code
           /\ ended.how # "exit" => status \notin ChildCodes

\* ---------------------------------------------------------------- C20
\* C20: every line run() has read from the child's output is emitted: once
\* the read loop is over, as many output events were emitted as lines were
\* read.
C20_NoLineLost ==
    \A j \in Jobs :
        pc[j] \in {"wait", "done"} => Len(OutputsOf(Emitted(j))) = rd[j]

\* ---------------------------------------------------------------- C21
\* C21: on every path of run() the finished signal is emitted at most once,
\* it has been emitted exactly when run() is over, and it is the last
\* emission of the job: no output, error or finished event follows it.
C21_FinishedOnceAndLast ==
    \A j \in Jobs :
        LET es == Emitted(j)
            fs == FinishedOf(es)
        IN  /\ Len(fs) <= 1
            /\ (pc[j] = "done") <=> (Len(fs) = 1)
            /\ Len(fs) = 1 => es[Len(es)].sig = "finished"
            /\ pc[j] = "none" => es = << >>

\* A job that emitted a line and was then stopped has delivered its finished
\* event.
C21_Witness ==
    \E j \in Jobs :
        /\ pc[j] = "done"
        /\ spc[j] = "done"
        /\ Pending(j) = << >>
        /\ Len(OutputsOf(received[j])) >= 1
        /\ Len(FinishedOf(received[j])) = 1

\* ---------------------------------------------------------------- C22
\* C22: a job is shown as Failed, and its finished event carries the failure
\* value -1, only when the child could not be spawned or run() itself
\* raised; never for a child that ran and exited or was ended by a signal.
Erred(j) == \E i \in 1..Len(Emitted(j)) : Emitted(j)[i].sig = "error"

C22_FailedOnlyOnError ==
    \A j \in Jobs :
        /\ \A i \in 1..Len(StatusOf(j)) :
               StatusOf(j)[i].kind = "Failed" => Erred(j)
        /\ \A i \in 1..Len(FinishedOf(Emitted(j))) :
               LET f == FinishedOf(Emitted(j))[i] IN
               (f.hascode /\ f.code = RcExcept) => Erred(j)

\* ---------------------------------------------------------------- C23
\* C23: every line the child writes, to standard output or to standard
\* error, is delivered as a line event, whatever the exit code: for a job
\* that was not stopped and whose output decodes, once run() is over there
\* are as many output events as lines the child wrote on both streams.
Decodes(ls) == \A i \in 1..Len(ls) : ls[i] # Undecodable

C23_BothStreamsAsLines ==
    \A j \in Jobs :
        (/\ pc[j] = "done"
         /\ proc[j] = "exited"
         /\ running[j]
         /\ Decodes(out[j]) /\ Decodes(err[j]))
            => Len(OutputsOf(Emitted(j))) = Len(out[j]) + Len(err[j])

\* ---------------------------------------------------------------- C24
\* C24: an error while reading the child's output does not end the job: no
\* finished event is emitted for a job whose child is still running.
C24_NoFinishWhileChildRuns ==
    \A j \in Jobs :
        FinishedOf(Emitted(j)) # << >> => proc[j] # "alive"

\* ---------------------------------------------------------------- C25
\* C25: after DashboardTab.refresh_logs has read an existing file of n
\* lines, the log view holds exactly the final min(50, n) lines of bot.log
\* in file order and the audit view the final min(30, m) lines of
\* audit-trail.txt; the views never hold more than 50 and 30 lines.
FinalLines(f) ==
    LET es == files[f].entries
        n == Len(es)
        k == IF Window(f) < n THEN Window(f) ELSE n
    IN  Ids(SubSeq(es, n - k + 1, n))

C25_BoundedHistory ==
    /\ Len(logsText.lines) <= BotWindow
    /\ Len(auditText.lines) <= AuditWindow
    /\ \A f \in {BotLog, AuditTxt} :
           (tab = "DashboardTab" /\ CaughtUp(f)) => Shown(f) = FinalLines(f)

\* bot.log has outgrown the slice and has been read.
C25_Witness ==
    /\ tab = "DashboardTab"
    /\ CaughtUp(BotLog)
    /\ Len(files[BotLog].entries) > BotWindow
    /\ Len(logsText.lines) = BotWindow

\* ---------------------------------------------------------------- C26
\* C26: a refresh that fails does not stop the polling: the timer's refresh
\* stays possible, and the first refresh after the file reads again (the
\* refresh before it met the file unreadable) shows the file's content, with
\* MonitorTab's label back to Online.
ReadableAgain(f) ==
    /\ f \in Watched(tab)
    /\ last.polled
    /\ since = {}
    /\ "repair" \in Cause(f)
    /\ Cause(f) \subseteq {"repair", "append"}
    /\ \A g \in Watched(tab) : files[g].state # "garbled"
    /\ AllOk(files[f].entries)

C26_PollingSurvivesErrors ==
    /\ tab = "MonitorTab" => ENABLED MonitorRefresh
    /\ tab = "DashboardTab" => ENABLED DashboardRefresh
    /\ \A f \in Files :
           ReadableAgain(f) =>
               /\ tab = "MonitorTab" => statusLabel = "Online"
               /\ Shown(f) = FinalLines(f)

\* ---------------------------------------------------------------- C27
\* C27: whenever stop() has returned, also when it ran before run() had
\* assigned self.process, no child of that ProcessManager is running: a
\* child that run() spawns does not keep running uncancelled.
C27_NoChildOutlivesStop ==
    \A j \in Jobs :
        spc[j] = "done" => proc[j] # "alive"

\* ---------------------------------------------------------------- C28
\* C28: once stop() has returned, run() emits no further output line of the
\* job.
C28_NoOutputAfterStop ==
    [][\A j \in Jobs :
           spc[j] = "done" => OutputsOf(Emitted(j))' = OutputsOf(Emitted(j))]_vars

\* ---------------------------------------------------------------- C29
\* C29: after a relaunch the panel's widget holds only the header, lines and
\* status events of the most recently launched job.
C29_ViewOfLatestJobOnly ==
    \A i \in 1..Len(view) : view[i].job = njobs

\* ---------------------------------------------------------------- C30
\* C30: after a refresh of MonitorTab (and before the file changes again) the
\* label is Online when the refresh found and parsed the audit document, and
\* Offline when it found the document missing or unparsable.
C30_LabelReflectsLastRefresh ==
    (tab = "MonitorTab" /\ last.polled /\ since = {}) =>
        /\ (last.seen[AuditJson] = "ok" /\ AllOk(files[AuditJson].entries))
               => statusLabel = "Online"
        /\ last.seen[AuditJson] \in {"missing", "garbled"}
               => statusLabel = "Offline"

====
